---- MODULE Spec2Model ----
(***************************************************************************)
(* The per-frame movement controller of the first-person scene             *)
(* (PlayerRig.useFrame in components/fps/FPSScene.tsx) together with the   *)
(* metrics store (stores/player.ts), as a state machine.                   *)
(*                                                                         *)
(* Numbers are fixed point.  Time is in milliseconds, velocity in          *)
(* millimetres per second, position and height in micrometres (so that     *)
(* position += velocity * dt is exact), stamina in thousandths of a point, *)
(* the jump cooldown in milliseconds.  Interpolation factors (1 - exp) are *)
(* in ten-thousandths.                                                     *)
(***************************************************************************)
EXTENDS Integers, FiniteSets, Sequences, TLC

\* ------------------------------------------------------------------ units

Milli == 10 * 100
Micro == Milli * Milli
ExpScale == 10 * Milli

Min(a, b) == IF a <= b THEN a ELSE b
Max(a, b) == IF a >= b THEN a ELSE b
Abs(a) == IF a >= 0 THEN a ELSE -a

\* a / b rounded toward zero
Quot(a, b) == IF a >= 0 THEN a \div b ELSE -((-a) \div b)

\* (a * b) / ExpScale rounded toward zero, without forming a * b
Scaled(a, b) ==
  LET m == Abs(a)
      q == (m \div ExpScale) * b + ((m % ExpScale) * b) \div ExpScale
  IN IF a >= 0 THEN q ELSE -q

\* ------------------------------------------------------- program constants

playerHeight == 1720000
crouchHeight == 1050000
walkSpeed == 9500
gravity == 32

MaxDt == 50
CrouchFactor == 450
SprintFactor == 1750
SprintThreshold == 5000
DrainRate == 32
RegenRate == 20
MaxStamina == 100000
JumpSpeed == 12500
JumpCooldown == 350
\* damping rates, in tenths per second
MoveLambda == 80
StopLambda == 55
GroundLambda == 180
ArenaMargin == 3
InitialZ == 20
SpawnZ == 25

ControlName == {"forward", "backward", "left", "right", "run", "jump", "crouch"}

\* --------------------------------------------------------- model bounds

\* frames of one behaviour in which the renderer's deltas vary
MaxFrames == 4
\* simulated time (ms) of one behaviour in which the renderer is steady
MaxElapsed == 3200
\* terms of the exponential series
ExpTerms == 10

\* frame deltas (ms) the renderer hands to useFrame
Deltas == {0, 16, 50, 1000}

\* pressed-key sets getKeys() returns to a frame
KeySnapshots ==
  { {}, {"forward", "run"}, {"forward", "run", "crouch"},
    {"forward", "backward", "run"}, {"jump"}, {"crouch", "left"} }

\* frame intervals (ms) of a steady renderer
Rates == {16, 30, 40, 50}

\* pressed-key sets held down for a whole behaviour of a steady renderer
HeldSnapshots ==
  { {"backward", "run"}, {"left", "run"}, {"jump"}, {"forward", "run", "crouch"},
    {"jump", "backward", "run"} }

\* simulated times (ms) at which the player may stop sprinting
ReleaseTimes == {600, 1200}

\* camera headings (degrees about the vertical axis)
Yaws == {0, 90}

TerrainKinds == {"flat", "slope"}

\* ------------------------------------------------------ three.js MathUtils

RECURSIVE ExpSeries(_, _, _, _)
\* sum of u^k / k! for k = n .. ExpTerms, u in ten-thousandths
ExpSeries(u, n, term, acc) ==
  IF n > ExpTerms THEN acc
  ELSE LET t == (term * u) \div (n * ExpScale)
       IN ExpSeries(u, n + 1, t, acc + t)

\* exp(-lambda * dt), lambda in tenths per second and dt in ms
ExpNeg(lambda, dt) ==
  (ExpScale * ExpScale) \div ExpSeries(lambda * dt, 1, ExpScale, ExpScale)

lerp(x, y, t) == x + Scaled(y - x, t)

\* 1 - exp(-lambda * dt) for the three damping rates and every clamped dt
DampFactor ==
  [lambda \in {StopLambda, MoveLambda, GroundLambda}, dt \in 0..MaxDt |->
     ExpScale - ExpNeg(lambda, dt)]

damp(x, y, lambda, dt) == lerp(x, y, DampFactor[lambda, dt])

RECURSIVE SqrtBits(_, _, _)
SqrtBits(n, r, bit) ==
  IF bit = 0 THEN r
  ELSE IF (r + bit) * (r + bit) <= n
       THEN SqrtBits(n, r + bit, bit \div 2)
       ELSE SqrtBits(n, r, bit \div 2)

\* floor of the square root, n < 2^30
Sqrt(n) == SqrtBits(n, 0, 16384)

\* ------------------------------------------------- lib/terrain (imported)

\* half extent of the playable square, in world units
ARENA_HALF_SIZE == 30

\* ground elevation (micrometres) at planar coordinates (micrometres) on a
\* height field of the given kind: deterministic and side-effect free
HeightField(kind, x, z) ==
  IF kind = "flat" THEN 0 ELSE (Abs(x) + Abs(z)) \div 4

clampToArena(value, min, max) == Max(min, Min(max, value))

\* --------------------------------------------------------------- state

VARIABLES
  controls,    \* controlsRef.current: "null" until PointerLockControls mounts
  camera,      \* heading of camera.quaternion about the vertical axis
  keys,        \* the pressed controls, as getKeys() last returned them
  position,    \* position.current
  velocity,    \* velocity.current
  stamina,     \* stamina.current
  isGrounded,  \* isGrounded.current
  cooldown,    \* cooldown.current
  store,       \* usePlayerState: speed, altitude, stamina, locked
  terrain,     \* the height field this session runs on
  rate,        \* frame interval of a steady renderer (0: not steady)
  frames,      \* frame callbacks that ran so far
  elapsed,     \* sum of the clamped dt of those frames
  last         \* the locals of the last frame callback that ran

kinematics == <<position, velocity, stamina, isGrounded, cooldown>>
vars == <<controls, camera, keys, position, velocity, stamina, isGrounded,
          cooldown, store, terrain, rate, frames, elapsed, last>>

terrainHeight(x, z) == HeightField(terrain, x, z)

ArenaMin == (ArenaMargin - ARENA_HALF_SIZE) * Micro
ArenaMax == (ARENA_HALF_SIZE - ArenaMargin) * Micro

Vec3(x, y, z) == [x |-> x, y |-> y, z |-> z]
Vec2(x, z) == [x |-> x, z |-> z]

\* ----------------------------------------------------- stores/player.ts

InitialStore == [speed |-> 0, altitude |-> 0, stamina |-> MaxStamina, locked |-> FALSE]

\* setMetrics leaving the published stamina as it was
setMetricsMotion(s, speed, altitude, stam) ==
  [s EXCEPT !.speed = speed, !.altitude = altitude]

setMetrics(s, speed, altitude, stam) ==
  [s EXCEPT !.speed = speed, !.altitude = altitude, !.stamina = stam]

\* setLocked building the store anew around the lock state
setLockedFresh(s, locked) ==
  [speed |-> 0, altitude |-> 0, stamina |-> 100 * Milli, locked |-> locked]

setLocked(s, locked) == [s EXCEPT !.locked = locked]

\* ------------------------------------------------- PlayerRig.useFrame

\* a delta above 0.05 taken for a frame that did not happen
ClampDtStall(delta) == IF delta > MaxDt THEN 0 ELSE delta

\* the clamp at half of 0.05
ClampDtHalf(delta) == Min(delta, MaxDt \div 2)

ClampDt(delta) == Min(delta, MaxDt)

Headings == {0, 90, 180, 270}

\* frontVector: world -Z turned by the heading, flattened, unit length (thousandths)
frontVector(yaw) ==
  CASE yaw = 0 -> Vec2(0, -Milli)
    [] yaw = 90 -> Vec2(-Milli, 0)
    [] yaw = 180 -> Vec2(0, Milli)
    [] OTHER -> Vec2(Milli, 0)

\* Vector3.normalize: divides by length() || 1
Normalize(v) ==
  LET len == Sqrt(v.x * v.x + v.z * v.z)
  IN IF len = 0 THEN v ELSE Vec2(Quot(v.x * Milli, len), Quot(v.z * Milli, len))

\* sideVector: up x front, of unit length already, so that its normalize()
\* changes nothing
sideVector(yaw) ==
  LET f == frontVector(yaw) IN Vec2(f.z, -f.x)

\* moveVector before normalisation, from the forward/backward balance a and
\* the right/left balance b
moveVector(yaw, a, b) ==
  LET f == frontVector(yaw)
      s == sideVector(yaw)
  IN Vec2(a * f.x + b * s.x, a * f.z + b * s.z)

\* moveVector.lengthSq() > 0.001, and moveVector as the damping uses it
\* (normalised when moving), for every heading and key balance
Movement ==
  [yaw \in Headings, a \in -1..1, b \in -1..1 |->
     LET m == moveVector(yaw, a, b)
         moving == m.x * m.x + m.z * m.z > Milli
     IN [isMoving |-> moving, moveVector |-> IF moving THEN Normalize(m) ELSE m]]

Sign(k, name) == IF name \in k THEN 1 ELSE 0

movement(k, yaw) ==
  Movement[yaw, Sign(k, "forward") - Sign(k, "backward"),
                Sign(k, "right") - Sign(k, "left")]

\* isMoving taking any pressed direction key for movement intent
isMovingAnyKey(k, yaw) == k \cap {"forward", "backward", "left", "right"} # {}

isMoving(k, yaw) == movement(k, yaw).isMoving

crouchFactor(k) == IF "crouch" \in k THEN CrouchFactor ELSE Milli

\* canSprint without the crouch test
canSprintCrouched(k, stam) == "run" \in k /\ stam > SprintThreshold

\* canSprint without the stamina threshold
canSprintExhausted(k, stam) == "run" \in k /\ stam > 0 /\ "crouch" \notin k

canSprint(k, stam) == "run" \in k /\ stam > SprintThreshold /\ "crouch" \notin k

sprintFactor(k, stam) == IF canSprint(k, stam) THEN SprintFactor ELSE Milli

targetSpeed(k, stam) ==
  (((walkSpeed * crouchFactor(k)) \div Milli) * sprintFactor(k, stam)) \div Milli

\* velocity.x / velocity.z after damping toward the desired velocity
horizontalVelocity(v, k, yaw, stam, dt) ==
  IF isMoving(k, yaw)
  THEN LET m == movement(k, yaw).moveVector
           t == targetSpeed(k, stam)
       IN Vec2(damp(v.x, Quot(m.x * t, Milli), MoveLambda, dt),
               damp(v.z, Quot(m.z * t, Milli), MoveLambda, dt))
  ELSE Vec2(damp(v.x, 0, StopLambda, dt), damp(v.z, 0, StopLambda, dt))

\* staminaStep without regeneration
staminaStepIdle(stam, draining, dt) ==
  IF draining THEN Max(0, stam - DrainRate * dt) ELSE stam

\* staminaStep without the cap of the regeneration
staminaStepUncapped(stam, draining, dt) ==
  IF draining THEN Max(0, stam - DrainRate * dt) ELSE stam + RegenRate * dt

staminaStep(stam, draining, dt) ==
  IF draining THEN Max(0, stam - DrainRate * dt)
  ELSE Min(MaxStamina, stam + RegenRate * dt)

\* cooldownStep without the test that the cooldown is still running
cooldownStepAlways(c, dt) == c - dt

cooldownStep(c, dt) == IF c > 0 THEN c - dt ELSE c

\* jumpGate without the cooldown test
jumpGateNoCooldown(k, grounded, c) == "jump" \in k /\ grounded

jumpGate(k, grounded, c) == "jump" \in k /\ grounded /\ c <= 0

\* clampToBounds stopping one micrometre short of the bounds
clampToBoundsInside(v) == clampToArena(v, ArenaMin + 1, ArenaMax - 1)

\* clampToBounds without the margin
clampToBoundsNoMargin(v) ==
  clampToArena(v, -ARENA_HALF_SIZE * Micro, ARENA_HALF_SIZE * Micro)

clampToBounds(v) == clampToArena(v, ArenaMin, ArenaMax)

\* desiredHeight without the crouch test
desiredHeightStanding(k, ground) == ground + playerHeight

desiredHeight(k, ground) ==
  IF "crouch" \in k THEN ground + crouchHeight ELSE ground + playerHeight

\* position.y <= desiredHeight
touchesGround(y, desired) == y <= desired

\* position.y after ground resolution
resolvedHeight(y, desired, dt) ==
  IF touchesGround(y, desired) THEN damp(y, desired, GroundLambda, dt) ELSE y

\* the spawn guard: a position of length zero is replaced by the spawn point
spawnGuard(p) ==
  IF p.x = 0 /\ p.y = 0 /\ p.z = 0
  THEN Vec3(0, terrainHeight(0, SpawnZ * Micro) + playerHeight, SpawnZ * Micro)
  ELSE p

\* history: the clamped time from the last frame that triggered a jump to the
\* end of a frame of dt, counted up to the cooldown (-1 before the first jump)
sinceJump(dt) ==
  LET before == IF last.jumped THEN 0 ELSE last.sinceJump
  IN IF before < 0 THEN -1 ELSE Min(before + dt, JumpCooldown)

\* the locals of one run of the frame callback and the refs as the run found
\* them, kept for inspection
FrameLocals(delta, dt, k, jumped, fallSpeed, integrated, ground, desired) ==
  [ran |-> TRUE, delta |-> delta, dt |-> dt, keys |-> k,
   position |-> position, isGrounded |-> isGrounded, cooldown |-> cooldown,
   stamina |-> stamina, velocity |-> velocity, start |-> spawnGuard(position),
   canSprint |-> canSprint(k, stamina), sprintFactor |-> sprintFactor(k, stamina),
   targetSpeed |-> targetSpeed(k, stamina),
   jumped |-> jumped, fallSpeed |-> fallSpeed, integrated |-> integrated,
   terrainHeightAtPoint |-> ground, desiredHeight |-> desired,
   sinceJump |-> sinceJump(dt)]

NoFrame ==
  [ran |-> FALSE, delta |-> 0, dt |-> 0, keys |-> {},
   position |-> Vec3(0, 0, InitialZ * Micro), isGrounded |-> FALSE, cooldown |-> 0,
   stamina |-> MaxStamina, velocity |-> Vec3(0, 0, 0),
   start |-> Vec3(0, 0, InitialZ * Micro),
   canSprint |-> FALSE, sprintFactor |-> Milli, targetSpeed |-> walkSpeed,
   jumped |-> FALSE, fallSpeed |-> 0, integrated |-> Vec3(0, 0, InitialZ * Micro),
   terrainHeightAtPoint |-> 0, desiredHeight |-> 0, sinceJump |-> -1]

\* the end of the frame callback: ground resolution, the camera and the
\* published metrics.  p is the position after integration and clamping, moved
\* the position after integration alone
Resolve(delta, dt, k, hv, vy, stam, cd, jumped, moved, p) ==
  LET ground == terrainHeight(p.x, p.z)
      desired == desiredHeight(k, ground)
      landed == touchesGround(p.y, desired)
      y == resolvedHeight(p.y, desired, dt)
  IN /\ position' = Vec3(p.x, y, p.z)
     /\ velocity' = Vec3(hv.x, IF landed THEN 0 ELSE vy, hv.z)
     /\ stamina' = stam
     /\ cooldown' = cd
     /\ isGrounded' = landed
     /\ store' = setMetrics(store, Sqrt(hv.x * hv.x + hv.z * hv.z), y - ground, stam)
     /\ frames' = frames + 1
     /\ elapsed' = elapsed + dt
     /\ last' = FrameLocals(delta, dt, k, jumped, vy, moved, ground, desired)
     /\ keys' = k
     /\ UNCHANGED <<controls, camera, terrain, rate>>

\* the jump gate, gravity, integration and the arena clamp
Integrate(delta, dt, k, start, hv, stam, cd) ==
  LET jumped == jumpGate(k, isGrounded, cd)
      vy == (IF jumped THEN JumpSpeed ELSE velocity.y) - gravity * dt
  IN Resolve(delta, dt, k, hv, vy, stam, IF jumped THEN JumpCooldown ELSE cd, jumped,
             Vec3(start.x + hv.x * dt, start.y + vy * dt, start.z + hv.z * dt),
             Vec3(clampToBounds(start.x + hv.x * dt), start.y + vy * dt,
                  clampToBounds(start.z + hv.z * dt)))

\* the body of the frame callback with controlsRef.current set, getKeys()
\* returning k and dt the elapsed time it uses: the spawn guard, the damped
\* horizontal velocity, stamina and the cooldown, then the rest of the callback
Step(delta, dt, k) ==
  Integrate(delta, dt, k, spawnGuard(position),
            horizontalVelocity(velocity, k, camera, stamina, dt),
            staminaStep(stamina, canSprint(k, stamina) /\ isMoving(k, camera), dt),
            cooldownStep(cooldown, dt))

\* useFrame((state, delta) => ...): dt = Math.min(delta, 0.05)
Update(delta, k) == Step(delta, ClampDt(delta), k)

\* the frame callback before PointerLockControls has mounted: it returns at once
FrameWithoutControls ==
  /\ controls = "null"
  /\ UNCHANGED vars

\* a frame of a renderer whose deltas vary
Frame ==
  /\ controls # "null"
  /\ rate = 0
  /\ frames < MaxFrames
  /\ \E delta \in Deltas, k \in KeySnapshots : Update(delta, k)

\* <PointerLockControls ref={controlsRef} /> mounts
Mount ==
  /\ controls = "null"
  /\ controls' = "mounted"
  /\ UNCHANGED <<camera, keys, position, velocity, stamina, isGrounded, cooldown,
                 store, terrain, rate, frames, elapsed, last>>

\* onLock={() => onLockChange(true)}
Lock ==
  /\ controls # "null"
  /\ ~store.locked
  /\ store' = setLocked(store, TRUE)
  /\ UNCHANGED <<controls, camera, keys, position, velocity, stamina, isGrounded,
                 cooldown, terrain, rate, frames, elapsed, last>>

\* onUnlock={() => onLockChange(false)}
Unlock ==
  /\ store.locked
  /\ store' = setLocked(store, FALSE)
  /\ UNCHANGED <<controls, camera, keys, position, velocity, stamina, isGrounded,
                 cooldown, terrain, rate, frames, elapsed, last>>

\* the pointer turns the camera, which it does only while locked
Look ==
  /\ store.locked
  /\ \E yaw \in Yaws \ {camera} : camera' = yaw
  /\ UNCHANGED <<controls, keys, position, velocity, stamina, isGrounded, cooldown,
                 store, terrain, rate, frames, elapsed, last>>

\* the refs and the store as PlayerRig and create() construct them
Constructed ==
  /\ controls = "null"
  /\ camera = 0
  /\ keys = {}
  /\ position = Vec3(0, 0, InitialZ * Micro)
  /\ velocity = Vec3(0, 0, 0)
  /\ stamina = MaxStamina
  /\ isGrounded = FALSE
  /\ cooldown = 0
  /\ store = InitialStore
  /\ terrain \in TerrainKinds
  /\ frames = 0
  /\ elapsed = 0
  /\ last = NoFrame

\* a frame of a renderer that delivers the same delta every time
SteadyFrame ==
  /\ controls # "null"
  /\ rate > 0
  /\ elapsed < MaxElapsed
  /\ Update(rate, keys)

\* under a steady renderer the player presses the keys of the run before the
\* first frame and holds them
Hold ==
  /\ rate > 0
  /\ frames = 0
  /\ keys = {}
  /\ \E k \in HeldSnapshots : keys' = k
  /\ UNCHANGED <<controls, camera, position, velocity, stamina, isGrounded, cooldown,
                 store, terrain, rate, frames, elapsed, last>>

\* under a steady renderer the player turns the camera before the first frame
Orient == rate > 0 /\ frames = 0 /\ Look

\* the renderer either varies its deltas (rate = 0) or is steady
Init == Constructed /\ rate \in {0} \cup Rates

Next ==
  \/ FrameWithoutControls
  \/ Frame
  \/ SteadyFrame
  \/ Mount
  \/ Lock
  \/ Unlock
  \/ Orient
  \/ Hold

Spec == Init /\ [][Next]_vars

\* ---------------------------------------------- a renderer that keeps going

\* the keys as held ask for a sprint: run and a direction, crouch released
sprintKeys(k, yaw) == "run" \in k /\ "crouch" \notin k /\ isMoving(k, yaw)

\* under a steady renderer the player stops sprinting: lets go of run, or of
\* the direction keys, or crouches, and holds the keys so from then on
Release ==
  /\ rate > 0
  /\ frames > 0
  /\ elapsed \in ReleaseTimes
  /\ sprintKeys(keys, camera)
  /\ \E k \in {keys \ {"run"}, keys \cup {"crouch"},
               keys \ {"forward", "backward", "left", "right"}} : keys' = k
  /\ UNCHANGED <<controls, camera, position, velocity, stamina, isGrounded, cooldown,
                 store, terrain, rate, frames, elapsed, last>>

LiveInit == Constructed /\ rate \in Rates

LiveNext ==
  \/ FrameWithoutControls
  \/ SteadyFrame
  \/ Mount
  \/ Lock
  \/ Unlock
  \/ Orient
  \/ Hold
  \/ Release

\* the renderer delivers a frame: the frame callback runs once more.  Among
\* the steps of LiveNext these are the steps of SteadyFrame, and one is
\* possible exactly when SteadyFrame is
FrameArrives ==
  /\ controls # "null"
  /\ rate > 0
  /\ elapsed < MaxElapsed
  /\ frames' = frames + 1

\* the renderer calls the frame callback again and again
LiveSpec == LiveInit /\ [][LiveNext]_vars /\ WF_frames(FrameArrives)

\* ------------------------------------------------------------ properties

FrameStep == frames' = frames + 1

\* C1: while the pointer is not locked every frame update is skipped, so that
\* position, velocity, stamina, grounded and jumpCooldown stay as they were
\* at disengagement.  (Stated for frames with a positive delta, so that it
\* does not rest on what a zero delta does.)
C1_PausedWhileUnlocked ==
  [][(~store.locked /\ FrameStep /\ last'.delta > 0) => UNCHANGED kinematics]_vars

\* C2: starting from stamina = 100, after any sequence of frame updates
\* stamina lies in the closed interval [0, 100].
C2_StaminaInRange == stamina >= 0 /\ stamina <= 100 * Milli

\* a frame whose regeneration the cap at 100 cut short
C2_Witness ==
  /\ last.ran
  /\ last.stamina + RegenRate * last.dt > 100 * Milli
  /\ stamina = 100 * Milli

\* C3: a jump is triggered only with the jump flag set, grounded and
\* jumpCooldown <= 0 at the gate, and at the end of every update that
\* triggered one grounded is false, jumpCooldown is 0.35 and the vertical
\* velocity was launched from 12.5.  (Stated for frames with a positive delta.)
C3_JumpEndsAirborne ==
  (last.ran /\ last.delta > 0 /\ last.jumped) =>
    /\ "jump" \in last.keys
    /\ last.isGrounded
    /\ (IF last.cooldown > 0 THEN last.cooldown - last.dt ELSE last.cooldown) <= 0
    /\ last.fallSpeed = 12500 - 32 * last.dt
    /\ cooldown = 350
    /\ ~isGrounded

\* C4: after every update position.x and position.z lie in
\* [-ARENA_HALF_SIZE + 3, ARENA_HALF_SIZE - 3].
C4_InsideArena ==
  last.ran =>
    /\ position.x >= (3 - ARENA_HALF_SIZE) * Micro
    /\ position.x <= (ARENA_HALF_SIZE - 3) * Micro
    /\ position.z >= (3 - ARENA_HALF_SIZE) * Micro
    /\ position.z <= (ARENA_HALF_SIZE - 3) * Micro

\* a frame whose integration carried z past the bound, and the clamp held it
C4_Witness ==
  /\ last.ran
  /\ last.integrated.z > (ARENA_HALF_SIZE - 3) * Micro
  /\ position.z = (ARENA_HALF_SIZE - 3) * Micro

\* C5: an update with a frame delta that is zero or negative changes none of
\* position, velocity, stamina, grounded and jumpCooldown.
C5_ZeroDeltaIsNoOp ==
  [][(FrameStep /\ last'.delta <= 0) => UNCHANGED kinematics]_vars

\* C6: at the end of an update grounded is true exactly when the position
\* after integration was at or below terrainHeight(x, z) plus the eye height
\* (1.05 crouched, 1.72 standing), and then velocity.y is 0.
C6_GroundedRecomputed ==
  last.ran =>
    /\ isGrounded <=>
         last.integrated.y <=
           terrainHeight(position.x, position.z)
             + (IF "crouch" \in last.keys THEN 1050000 ELSE 1720000)
    /\ isGrounded => velocity.y = 0

\* a landing: airborne and falling before the frame, grounded after it
C6_Witness ==
  /\ last.ran
  /\ last.dt > 0
  /\ frames > 1
  /\ ~last.isGrounded
  /\ last.velocity.y < 0
  /\ isGrounded
  /\ velocity.y = 0

\* C7: the sprint factor is 1.75 exactly when run is set, the stamina at the
\* start of the update is above 5 and crouch is not set, and 1 otherwise; the
\* target speed is 9.5, 9.5 * 0.45 or 9.5 * 1.75.
C7_SprintFactor ==
  last.ran =>
    /\ last.sprintFactor =
         (IF "run" \in last.keys /\ last.stamina > 5000 /\ "crouch" \notin last.keys
          THEN 1750 ELSE 1000)
    /\ last.targetSpeed \in {9500, 4275, 16625}
    /\ last.targetSpeed = 16625 <=> last.sprintFactor = 1750

\* run held without crouch, and the stamina too low to sprint
C7_Witness ==
  /\ last.ran
  /\ "run" \in last.keys
  /\ "crouch" \notin last.keys
  /\ last.stamina <= 5000
  /\ last.targetSpeed = 9500

\* C8: after an update that left grounded true, position.y is at least
\* terrainHeight(position.x, position.z).  (Stated for frames with a positive
\* delta.)
C8_EyeAboveTerrain ==
  (last.ran /\ last.delta > 0 /\ isGrounded) =>
    position.y >= terrainHeight(position.x, position.z)

\* C9: jumpCooldown is never below 0, and an update changes it only by
\* subtracting the elapsed dt or by resetting it to 0.35 on a jump.
C9_CooldownNonNegative ==
  /\ cooldown >= 0
  /\ last.ran =>
       IF last.jumped THEN cooldown = 350
       ELSE cooldown \in {last.cooldown, last.cooldown - last.dt}

\* C9 as amended: jumpCooldown is never below -0.05 (the largest clamped dt),
\* and an update changes it only by subtracting the elapsed dt or by resetting
\* it to 0.35 on a jump.
C9_CooldownBounded ==
  /\ cooldown >= -50
  /\ last.ran =>
       IF last.jumped THEN cooldown = 350
       ELSE cooldown \in {last.cooldown, last.cooldown - last.dt}

\* the last decrement took the cooldown below zero
C9_Witness == last.ran /\ last.cooldown > 0 /\ cooldown < 0

\* run and a movement key held since the first frame, crouch released
SprintHeld ==
  /\ rate > 0
  /\ "run" \in keys
  /\ "crouch" \notin keys
  /\ isMoving(keys, camera)

\* C10: from stamina = 100 with run and a movement key held, after frames
\* totalling 3 seconds (any split into frames of dt <= 0.05) stamina is 4, and
\* the next frame does not sprint.
C10_ScenarioB ==
  /\ (SprintHeld /\ elapsed = 3000) => stamina = 4000
  /\ (SprintHeld /\ elapsed - last.dt = 3000) =>
       (last.stamina = 4000 /\ last.sprintFactor = 1000)

\* C10 as amended: the same for splits into equal frames longer than
\* 0.03125 s, in which every frame of the 3 seconds starts with stamina > 5.
C10_ScenarioBLongFrames ==
  /\ (SprintHeld /\ elapsed = 3000 /\ 32 * rate > 1000) => stamina = 4000
  /\ (SprintHeld /\ elapsed - last.dt = 3000 /\ 32 * rate > 1000) =>
       (last.stamina = 4000 /\ last.sprintFactor = 1000)

\* the frame after 60 frames of 0.05 s of sprinting
C10_Witness ==
  /\ SprintHeld
  /\ rate = 50
  /\ elapsed = 3050
  /\ last.stamina = 4000
  /\ last.sprintFactor = 1000

\* the horizontal velocity the damping of the last frame computed
DampedVelocity ==
  horizontalVelocity(last.velocity, last.keys, camera, last.stamina, last.dt)

\* C11 (Scenario D, hard stop): when integration would carry position.x or
\* position.z past an arena bound, the coordinate after the update is that
\* bound exactly, and velocity.x and velocity.z are the damped values of the
\* frame, still pointing at the wall: neither zeroed nor reflected.
C11_HardStop ==
  last.ran =>
    /\ last.integrated.x > 27 * Micro => (position.x = 27 * Micro /\ velocity.x > 0)
    /\ last.integrated.x < -27 * Micro => (position.x = -27 * Micro /\ velocity.x < 0)
    /\ last.integrated.z > 27 * Micro => (position.z = 27 * Micro /\ velocity.z > 0)
    /\ last.integrated.z < -27 * Micro => (position.z = -27 * Micro /\ velocity.z < 0)
    /\ velocity.x = DampedVelocity.x
    /\ velocity.z = DampedVelocity.z

\* pressed against the east bound (x = 27) while still moving east
C11_Witness ==
  /\ last.ran
  /\ last.position.x = 27 * Micro
  /\ last.integrated.x > 27 * Micro
  /\ position.x = 27 * Micro
  /\ velocity.x > 0

\* an update called with one second, airborne, velocity.y = 0 and no jump
AirborneSecond ==
  /\ last.ran
  /\ last.delta = 1000
  /\ ~last.isGrounded
  /\ last.velocity.y = 0
  /\ "jump" \notin last.keys

\* C12 (Scenario C): for an airborne avatar with velocity.y = 0 and no jump,
\* an update called with dt = 1 s makes the vertical velocity -32 before
\* ground resolution is applied.
C12_ScenarioC == AirborneSecond => last.fallSpeed = -32 * Milli

\* C12 as amended: the update clamps the second to 0.05 s, so that the
\* vertical velocity before ground resolution is -1.6 (= 32 * 0.05).
C12_ScenarioCClamped ==
  AirborneSecond => (last.dt = 50 /\ last.fallSpeed = -1600)

\* the first frame of a session arrives after a stall of one second
C12_Witness == AirborneSecond /\ frames = 1 /\ last.fallSpeed = -1600

\* C13: the elapsed time an update uses is min(delta, 0.05): an update with a
\* frame delta above 0.05 produces exactly the state an update with
\* delta = 0.05 produces, so that a frame changes stamina by at most 1.6 and
\* jumpCooldown by at most 0.05.  (Stated for frames with a positive delta.)
C13_DeltaClamped ==
  [][(FrameStep /\ last'.delta > 0) =>
       /\ last'.delta > 50 => Step(last'.delta, 50, last'.keys)
       /\ Abs(stamina' - stamina) <= 1600
       /\ Abs(cooldown' - cooldown) <= 50]_vars

\* C13 as amended: the same, with jumpCooldown decreasing by at most 0.05 and
\* changing otherwise only in a frame that triggers a jump, which resets it
\* to 0.35.
C13_DeltaClampedDecrement ==
  [][FrameStep =>
       /\ last'.delta > 50 => Step(last'.delta, 50, last'.keys)
       /\ Abs(stamina' - stamina) <= 1600
       /\ IF last'.jumped THEN cooldown' = 350
          ELSE cooldown' <= cooldown /\ cooldown' >= cooldown - 50]_vars

\* a stalled frame (delta of one second) that drained stamina by exactly 1.6
C13_Witness ==
  /\ last.ran
  /\ last.delta > 50
  /\ last.dt = 50
  /\ stamina = last.stamina - 1600

\* C14: at session start the position is the fixed spawn coordinate resolved
\* against the terrain: when the first update begins integrating, position is
\* (0, terrainHeight(0, 25) + 1.72, 25).
C14_SpawnResolved ==
  (last.ran /\ frames = 1) =>
    last.start = Vec3(0, terrainHeight(0, 25 * Micro) + 1720000, 25 * Micro)

\* C15: the published metrics mirror the controller's state: after every
\* update that runs the store holds speed = sqrt(vx^2 + vz^2) >= 0,
\* altitude = position.y - terrainHeight(position.x, position.z) and the
\* controller's stamina, all of the same end-of-frame state; the published
\* stamina equals the controller's stamina in every state, the initial one
\* included.
C15_MetricsMirror ==
  /\ store.stamina = stamina
  /\ last.ran =>
       /\ store.speed >= 0
       /\ store.speed * store.speed <= velocity.x * velocity.x + velocity.z * velocity.z
       /\ (store.speed + 1) * (store.speed + 1) >
            velocity.x * velocity.x + velocity.z * velocity.z
       /\ store.altitude = position.y - terrainHeight(position.x, position.z)

\* moving over sloping ground after a frame that drained stamina
C15_Witness ==
  /\ last.ran
  /\ store.speed > 0
  /\ store.stamina < last.stamina
  /\ terrainHeight(position.x, position.z) # 0
  /\ store.altitude # position.y

\* speed, altitude and stamina as a reader of the store finds them
Published == <<store.speed, store.altitude, store.stamina>>

\* the three published values all come from the end of the last frame that
\* ran, or all from the construction of the store
CompleteSnapshot ==
  IF last.ran
  THEN /\ store.speed * store.speed <= velocity.x * velocity.x + velocity.z * velocity.z
       /\ (store.speed + 1) * (store.speed + 1) >
            velocity.x * velocity.x + velocity.z * velocity.z
       /\ store.altitude = position.y - terrainHeight(position.x, position.z)
       /\ store.stamina = stamina
  ELSE Published = <<0, 0, 100 * Milli>>

\* C16: the metrics sink is overwritten wholesale: a frame replaces speed,
\* altitude and stamina together and leaves locked as it was, a lock or unlock
\* notification changes locked alone, and nothing else writes the store, so
\* that under any interleaving of frames and notifications a reader finds the
\* three values of one and the same frame.
C16_WholesaleWrites ==
  /\ []CompleteSnapshot
  /\ [][/\ FrameStep => store'.locked = store.locked
        /\ ~FrameStep => Published' = Published
        /\ store'.locked # store.locked => UNCHANGED <<Published, kinematics, last>>]_vars

\* the pointer is locked and frames have published a snapshot
C16_Witness ==
  /\ last.ran
  /\ frames > 1
  /\ store.locked
  /\ store.speed > 0
  /\ store.stamina < 100 * Milli

\* the direction keys of a snapshot do not cancel each other
Intent(k) ==
  \/ ("forward" \in k) # ("backward" \in k)
  \/ ("left" \in k) # ("right" \in k)

\* C17: stamina follows a two-state machine selected each frame only by
\* (sprint eligible and movement intent non-zero) on the stamina at the start
\* of the frame: stamina' = max(0, stamina - 32 * dt) if it holds, and
\* min(100, stamina + 20 * dt) otherwise, run held with cancelling or no
\* direction keys or with crouch held included.
C17_StaminaMachine ==
  last.ran =>
    stamina =
      IF /\ "run" \in last.keys
         /\ last.stamina > 5000
         /\ "crouch" \notin last.keys
         /\ Intent(last.keys)
      THEN Max(0, last.stamina - 32 * last.dt)
      ELSE Min(100 * Milli, last.stamina + 20 * last.dt)

\* run held with forward and backward cancelling: stamina regenerates
C17_Witness ==
  /\ last.ran
  /\ last.keys = {"forward", "backward", "run"}
  /\ stamina > last.stamina

\* C18: between two updates that trigger a jump, the clamped elapsed time of
\* the frames after the first up to and including the second sums to at least
\* 0.35 s, so that two jumps are never triggered in consecutive frames, even
\* with the jump key held.
C18_JumpsApart ==
  (last.ran /\ last.jumped /\ last.sinceJump >= 0) =>
    (last.sinceJump >= 350 /\ last.dt < 350)

\* a second jump, triggered as soon as the cooldown of the first had run out
C18_Witness ==
  /\ last.ran
  /\ last.jumped
  /\ last.sinceJump = 350
  /\ "jump" \in keys

\* C19: the stamina floor of 0 is unreachable: from stamina = 100 and with
\* clamped frame deltas of at most 0.05, stamina stays strictly above 3.4
\* (= 5 - 32 * 0.05) in every reachable state, because only frames that start
\* with stamina > 5 drain it.
C19_FloorUnreachable == stamina > 3400

\* sprinting has drained stamina below the threshold of 5, down to 4
C19_Witness ==
  /\ last.ran
  /\ last.canSprint
  /\ last.stamina > 5000
  /\ stamina = 4000

\* frames have run and the keys, held from now on, do not ask for a sprint
Resting == rate > 0 /\ frames > 0 /\ ~sprintKeys(keys, camera)

\* C20 (liveness): if from some frame on the sprint-and-moving predicate is
\* never true (run released, or crouch held, or no movement intent) and frames
\* keep arriving with positive dt, stamina eventually reaches exactly 100 and
\* stays at 100.
C20_StaminaRecovers == [](Resting => <>[](stamina = 100 * Milli))

\* the frame in which a stamina drained by sprinting is back at 100
C20_Witness ==
  /\ Resting
  /\ last.stamina < 100 * Milli
  /\ stamina = 100 * Milli

====
